---- MODULE Spec2Model ----
(***************************************************************************)
(* Rate-limited history downloader of trading_bot: the module state of     *)
(* tinkoff_api.py (limiter, request queue, watcher task), the fetchers     *)
(* get_history_csvs() and the orchestration of Host.download_history().    *)
(* Tasks run on one cooperative event loop: an action is the code between  *)
(* two awaits.  Time is counted in seconds.                                *)
(* The store of db.py (tables instrument and candle) and the rewriting of  *)
(* a downloaded CSV are followed in specifications of their own: in the    *)
(* downloader a save task only begins and ends.                            *)
(***************************************************************************)
EXTENDS Integers, Sequences, FiniteSets, TLC

\* ----------------------------------------------------------------- bounds
NumFetchers == 2      \* instruments yielded by get_history_endings
CurYear == 1          \* datetime.now().year; years are 0..CurYear
MaxTicks == 3         \* how many times the clock advances
TickSeconds == 30     \* seconds by which the clock advances at a time
NumSessions == 2      \* save_candle_history calls that run at a time
MaxTimestamp == 2     \* candle timestamps are 1..MaxTimestamp
MaxOpen == 2          \* candle prices are 1..MaxOpen
MaxCsvRows == 2       \* lines of a CSV
MaxCsvs == 2          \* different CSVs saved in a run
NumUids == 2          \* instrument uids are 1..NumUids
NumFigis == 2         \* FIGIs are 1..NumFigis
MaxBatch == 2         \* instruments passed to add_instruments at a time
MaxIdentity == 4      \* values the identity sequence of instrument.id gives out
MaxCsvBytes == 7      \* bytes of a downloaded CSV
MaxIdDigits == 1      \* decimal digits of an instrument id
NumCallers == 3       \* add_instruments calls that run at a time
NumAssetTypes == 2    \* asset type names are 1..NumAssetTypes

\* ------------------------------------------------------ program constants
SECOND_CHANCE_PRIORITY == 1000000
DefaultPeriodSeconds == 60
DefaultLimitCount == 10
InitialLimit == 1

Fetchers == 1..NumFetchers
Years == 0..CurYear

\* Values the server may put in the headers of a response.
Absent == [kind |-> "absent", count1 |-> 0, count2 |-> 0, period |-> 0]
Malformed == [kind |-> "malformed", count1 |-> 0, count2 |-> 0, period |-> 0]
\* x-ratelimit-limit: 2,1;w=30
Limit30 == [kind |-> "match", count1 |-> 2, count2 |-> 1, period |-> 30]
\* x-ratelimit-limit: 30,30;w=60
Limit60 == [kind |-> "match", count1 |-> 30, count2 |-> 30, period |-> 60]
\* x-ratelimit-limit: 2,1;w=0
LimitW0 == [kind |-> "match", count1 |-> 2, count2 |-> 1, period |-> 0]
\* x-ratelimit-limit: 0,1;w=30
LimitNone == [kind |-> "match", count1 |-> 0, count2 |-> 1, period |-> 30]
\* An integer header is <<>> when absent and <<v>> when present.
IntHeaders(S) == {<<>>} \cup {<<v>> : v \in S}
Statuses == {"ok", "notfound", "error"}

VARIABLES
    \* module globals of tinkoff_api.py
    history_request_priority,
    history_limit,
    history_limit_count,
    history_limit_period,
    history_limit_policy_updated,
    history_limit_timeout,
    history_limit_updated,
    history_request_queue,
    watcher,            \* _history_limit_watcher_task and where it stands
    wake_at,            \* deadline of the watcher's wait_for
    now,                \* datetime.now(), seconds
    \* locals of each get_history_csvs() call
    pc, first_year, year, priority, first_chance_failed, can_proceed,
    \* Host.download_history / main
    host,
    \* history of the run
    p0,                 \* the priority a fetcher drew at line 110
    tries,              \* GETs issued for the fetcher's current year
    issued,             \* issue times, within the last period, of the GETs
                        \* issued since the policy was learned
    demotions,          \* times line 178 ran, per fetcher
    last,               \* status of the last response, per fetcher
    yielded,            \* years whose CSV the fetcher yielded
    jumped,             \* the watcher has admitted a ticket ahead of one put before it
    first_limit,        \* x-ratelimit-limit of the first response whose header
                        \* matched the pattern of line 131
    quiet_until,        \* now + x-ratelimit-reset of that response, 0 without one
    relimited,          \* a later response carried another matching header
    starved,            \* tickets queued when the watcher, out of tokens and past
                        \* the refill time, refilled in its current turn
    requests,           \* GETs issued, per fetcher
    admissions,         \* tickets the watcher admitted, per fetcher
    reset_seen,         \* x-ratelimit-reset of the latest response
    \* get_history_task, host.py lines 82-90
    saving,             \* unfinished save tasks in db_tasks, per fetcher
    save_failed,        \* a save task in db_tasks raised, per fetcher
    \* the database
    candle,             \* committed rows of table candle
    session,            \* the save_candle_history calls in progress
    saved,              \* the CSVs whose save was committed
    lost,               \* the rows the latest save that failed had inserted
    instrument,         \* rows of table instrument
    identity,           \* next value of the identity sequence of instrument.id
    upserted,           \* per uid, the values of the latest upsert that succeeded
    figis,              \* argument of the latest get_history_endings call
    endings,            \* what that call yielded, in order
    \* get_history_task, host.py lines 83-88
    downloaded,         \* the bytes get_history_csvs yielded
    uid_binary, id_binary,
    csv_out,            \* the bytes handed to save_candle_history
    \* DB._get_asset_types, db.py lines 156-165
    asset_type,         \* names in table asset_type
    asset_types,        \* DB._asset_types: <<>> for None, <<m>> for the mapping m
    asset_types_lock,   \* DB._asset_types_lock: its holder and those who wait
    caller,             \* the add_instruments calls
    creating,           \* where DB.create stands
    loads,              \* times line 164 ran since line 153 ran last
    received            \* the mappings _get_asset_types has returned since then

limiterVars == <<history_limit, history_limit_count, history_limit_period,
                 history_limit_policy_updated, history_limit_timeout,
                 history_limit_updated>>
fetcherVars == <<pc, first_year, year, priority, first_chance_failed, can_proceed>>
histVars == <<p0, tries, issued, demotions, last, yielded, jumped>>
learnVars == <<first_limit, quiet_until, relimited, starved>>
auditVars == <<requests, admissions, reset_seen>>
taskVars == <<saving, save_failed>>
loaderVars == <<history_request_priority, limiterVars, history_request_queue, watcher,
                wake_at, now, fetcherVars, host, histVars, learnVars, auditVars,
                taskVars>>
saveVars == <<candle, session, saved, lost>>
instrVars == <<instrument, identity, upserted>>
endVars == <<figis, endings>>
csvVars == <<downloaded, uid_binary, id_binary, csv_out>>
assetVars == <<asset_type, asset_types, asset_types_lock, caller, creating, loads,
               received>>
storeVars == <<saveVars, instrVars, endVars, csvVars, assetVars>>
vars == <<loaderVars, storeVars>>

Min(a, b) == IF a <= b THEN a ELSE b

\* ------------------------------------------------------------------ queue
\* The queue keeps its tickets in the order they were put; get() takes the
\* ticket that heapq orders first, the one of the smallest (priority, event)
\* tuple.  Two tickets of one priority would have heapq compare the events,
\* a TypeError: no index is chosen for such a queue.
\* get() of a plain asyncio.Queue: first in, first out.
PopIndex_Fifo(q) == 1

PopIndex(q) ==
    CHOOSE k \in 1..Len(q) :
        \A j \in 1..Len(q) : j # k => q[k].priority < q[j].priority

Remove(q, k) == [j \in 1..(Len(q) - 1) |-> IF j < k THEN q[j] ELSE q[j + 1]]

\* The emptiness test line 181 reads like.
QueueIsFalsy_Empty(q) == q = <<>>

\* Truth value of the queue object at line 181: asyncio.PriorityQueue defines
\* neither __bool__ nor __len__, so `not _history_request_queue` is False
\* whatever the queue holds.
QueueIsFalsy(q) == FALSE

\* ------------------------------------------------------- table candle
Sessions == 1..NumSessions
\* A candle: the key columns and open, which stands for the other columns.
Candles == [instrument : {1}, timestamp : 1..MaxTimestamp, open : 1..MaxOpen]
\* A CSV is the sequence of its lines.
Csvs == UNION {[1..n -> Candles] : n \in 0..MaxCsvRows}
\* A call of save_candle_history that has not begun.
IdleSession == [pc |-> "idle", csv |-> <<>>, todo |-> <<>>, own |-> {}]

\* The primary key of Candle, db.py lines 74-75.
SameKey(a, b) == a.instrument = b.instrument /\ a.timestamp = b.timestamp
\* A primary key of all columns.
KeyTaken_WholeRow(r, rows) == r \in rows
KeyTaken(r, rows) == \E x \in rows : SameKey(x, r)
\* The tables the primary key admits.
Tables == {t \in SUBSET Candles : \A a, b \in t : SameKey(a, b) => a = b}

\* --------------------------------------------------- table instrument
\* NULL in a column, None in Python.
NULL == 0
Uids == 1..NumUids
\* The columns add_instruments writes; figi and first_1min_candle_date stand
\* for all of them.
InstrumentData == [figi : 0..NumFigis, first_1min_candle_date : 0..MaxTimestamp]
Instruments == [id : 1..NumUids, uid : Uids,
                figi : 0..NumFigis, first_1min_candle_date : 0..MaxTimestamp]
\* The tables the primary key id and the unique uid admit, db.py lines 50-51.
InstrumentTables ==
    {{[id |-> ids[u], uid |-> u, figi |-> data[u].figi,
       first_1min_candle_date |-> data[u].first_1min_candle_date] : u \in present} :
        present \in SUBSET Uids,
        ids \in {f \in [Uids -> 1..NumUids] : \A u, v \in Uids : f[u] = f[v] => u = v},
        data \in [Uids -> InstrumentData]}
\* figis of get_history_endings: None, or the FIGIs of list.
FigiArgs == {[given |-> FALSE, list |-> {}]} \cup
            {[given |-> TRUE, list |-> l] : l \in SUBSET (1..NumFigis)}

\* No save is in progress and none was committed.
SaveIdle ==
    /\ session = [s \in Sessions |-> IdleSession]
    /\ saved = {}
    /\ lost = {}

\* Table instrument is empty.
InstrumentIdle ==
    /\ instrument = {}
    /\ identity = 1
    /\ upserted = [u \in Uids |-> <<>>]

\* get_history_endings was not called.
EndingsIdle ==
    /\ figis = [given |-> FALSE, list |-> {}]
    /\ endings = <<>>

\* No CSV was downloaded.
CsvIdle ==
    /\ downloaded = <<>>
    /\ uid_binary = <<>>
    /\ id_binary = <<>>
    /\ csv_out = <<>>

Callers == 1..NumCallers
AssetTypeNames == 1..NumAssetTypes
\* An add_instruments call that has not begun.
IdleCaller == [pc |-> "idle", seen |-> {}, asked |-> FALSE, waited |-> FALSE, result |-> <<>>]

\* DB as the class statement leaves it (db.py lines 97-98): no mapping, the
\* lock free, no call in progress.
CacheIdle ==
    /\ asset_types = <<>>
    /\ asset_types_lock = [holder |-> 0, waiters |-> <<>>]
    /\ caller = [c \in Callers |-> IdleCaller]
    /\ creating = "idle"
    /\ loads = 0
    /\ received = {}

\* Table asset_type is empty and no add_instruments call has begun.
AssetIdle ==
    /\ asset_type = {}
    /\ CacheIdle

\* No call of the store is in progress and its tables are empty.
StoreIdle ==
    /\ candle = {}
    /\ SaveIdle
    /\ InstrumentIdle
    /\ EndingsIdle
    /\ CsvIdle
    /\ AssetIdle

\* The state when download_history has created its tasks, for n instruments.
InitN(n) ==
    /\ history_request_priority = 0
    /\ history_limit = InitialLimit
    /\ history_limit_count = DefaultLimitCount
    /\ history_limit_period = DefaultPeriodSeconds
    /\ history_limit_policy_updated = FALSE
    /\ history_limit_timeout = 0
    /\ history_limit_updated = FALSE
    /\ history_request_queue = <<>>
    /\ watcher = "none"
    /\ wake_at = 0
    /\ now = 0
    /\ pc = [i \in Fetchers |-> IF i <= n THEN "new" ELSE "absent"]
    \* get_history_endings yields the instruments by ascending history_end
    /\ first_year \in {f \in [Fetchers -> Years] :
                          \A i, j \in Fetchers : i < j => f[i] <= f[j]}
    /\ year = first_year
    /\ priority = [i \in Fetchers |-> 0]
    /\ first_chance_failed = [i \in Fetchers |-> FALSE]
    /\ can_proceed = [i \in Fetchers |-> FALSE]
    /\ host = "gather"
    /\ p0 = [i \in Fetchers |-> 0]
    /\ tries = [i \in Fetchers |-> 0]
    /\ issued = <<>>
    /\ demotions = [i \in Fetchers |-> 0]
    /\ last = [i \in Fetchers |-> "none"]
    /\ yielded = [i \in Fetchers |-> {}]
    /\ jumped = FALSE
    /\ first_limit = Absent
    /\ quiet_until = 0
    /\ relimited = FALSE
    /\ starved = 0
    /\ requests = [i \in Fetchers |-> 0]
    /\ admissions = [i \in Fetchers |-> 0]
    /\ reset_seen = <<>>
    /\ saving = [i \in Fetchers |-> 0]
    /\ save_failed = [i \in Fetchers |-> FALSE]

Init == (\E n \in 1..NumFetchers : InitN(n)) /\ StoreIdle

\* The watcher is between two awaits, or in the loop of lines 212-214 for
\* good: nothing else runs.
WatcherRunning == watcher \in {"loop", "spin"}

\* -------------------------------------------------------------- fetchers
\* Lines 180-183, entered with the watcher task w: the fetcher leaves.
Leave(i, w) ==
    /\ pc' = [pc EXCEPT ![i] = "done"]
    /\ watcher' = IF QueueIsFalsy(history_request_queue) THEN "none" ELSE w
    /\ UNCHANGED <<history_request_queue, can_proceed>>

\* Lines 122-125 for year y with priority p: the loop test, then a ticket is
\* put and the fetcher waits for its event.
NextTicket(i, y, p, w) ==
    IF y <= CurYear
    THEN /\ can_proceed' = [can_proceed EXCEPT ![i] = FALSE]
         /\ history_request_queue' =
                Append(history_request_queue, [priority |-> p, owner |-> i])
         /\ pc' = [pc EXCEPT ![i] = "wait"]
         /\ watcher' = w
    ELSE Leave(i, w)

\* Lines 108-125 without line 111: every call draws the same priority.
FetcherStart_SamePriority(i) ==
    /\ pc[i] = "new"
    /\ \A j \in Fetchers : j < i => pc[j] # "new"
    /\ ~WatcherRunning
    /\ priority' = [priority EXCEPT ![i] = history_request_priority]
    /\ p0' = [p0 EXCEPT ![i] = history_request_priority]
    /\ NextTicket(i, year[i], history_request_priority,
                  IF watcher = "none" THEN "created" ELSE watcher)
    /\ UNCHANGED <<history_request_priority, limiterVars, wake_at, now, first_year,
                   year, first_chance_failed, host, tries, issued, demotions, last,
                   yielded, jumped>>
    /\ UNCHANGED <<learnVars, taskVars, auditVars, storeVars>>

\* Lines 108-125: the first run of the generator.
\* download_history creates the tasks in order and the loop runs ready tasks
\* first in, first out: fetcher i starts after the fetchers created before it.
FetcherStart(i) ==
    /\ pc[i] = "new"
    /\ \A j \in Fetchers : j < i => pc[j] # "new"
    /\ ~WatcherRunning
    /\ priority' = [priority EXCEPT ![i] = history_request_priority]
    /\ p0' = [p0 EXCEPT ![i] = history_request_priority]
    /\ history_request_priority' = history_request_priority + 1
    /\ NextTicket(i, year[i], history_request_priority,
                  IF watcher = "none" THEN "created" ELSE watcher)
    /\ UNCHANGED <<limiterVars, wake_at, now, first_year, year,
                   first_chance_failed, host, tries, issued, demotions, last, yielded, jumped>>
    /\ UNCHANGED <<learnVars, taskVars, auditVars, storeVars>>

\* The issue times later than t - history_limit_period: those that share a
\* window of the length of the period with a request issued at t.
Recent(times, t) == SelectSeq(times, LAMBDA u : u > t - history_limit_period)

\* The GET issued without awaiting can_proceed.
FetcherRequest_NoWait(i) ==
    /\ pc[i] = "wait"
    /\ ~WatcherRunning
    /\ pc' = [pc EXCEPT ![i] = "http"]
    /\ tries' = [tries EXCEPT ![i] = @ + 1]
    /\ issued' = IF history_limit_policy_updated
                  THEN Append(Recent(issued, now), now)
                  ELSE issued
    /\ UNCHANGED <<history_request_priority, limiterVars, history_request_queue,
                   watcher, wake_at, now, first_year, year, priority,
                   first_chance_failed, can_proceed, host, p0, demotions, last,
                   yielded, jumped>>
    /\ requests' = [requests EXCEPT ![i] = @ + 1]
    /\ UNCHANGED <<learnVars, taskVars, admissions, reset_seen, storeVars>>

\* Lines 125-128: admitted, the fetcher issues the GET for its year.
FetcherRequest(i) ==
    /\ pc[i] = "wait"
    /\ can_proceed[i]
    /\ ~WatcherRunning
    /\ pc' = [pc EXCEPT ![i] = "http"]
    /\ tries' = [tries EXCEPT ![i] = @ + 1]
    /\ issued' = IF history_limit_policy_updated
                  THEN Append(Recent(issued, now), now)
                  ELSE issued
    /\ UNCHANGED <<history_request_priority, limiterVars, history_request_queue,
                   watcher, wake_at, now, first_year, year, priority,
                   first_chance_failed, can_proceed, host, p0, demotions, last, yielded, jumped>>
    /\ requests' = [requests EXCEPT ![i] = @ + 1]
    /\ UNCHANGED <<learnVars, taskVars, admissions, reset_seen, storeVars>>

\* ------------------------------------------------ response, lines 129-178
\* Lines 133-134 without the test of line 130: every matching header is taken.
PolicyCount_EveryResponse(limit) ==
    IF limit.kind = "match" THEN Min(limit.count1, limit.count2) ELSE history_limit_count

\* Lines 130-135: the policy is read from x-ratelimit-limit once.
PolicyCount(limit) ==
    IF ~history_limit_policy_updated /\ limit.kind = "match"
    THEN Min(limit.count1, limit.count2)
    ELSE history_limit_count

PolicyPeriod(limit) ==
    IF ~history_limit_policy_updated /\ limit.kind = "match"
    THEN limit.period
    ELSE history_limit_period

\* Lines 138-143 without the test of line 141: every reset header is taken.
ResetMoves_Always(reset) == reset # <<>>

\* Lines 138-143: x-ratelimit-reset moves the refill time earlier.
ResetMoves(reset) == reset # <<>> /\ now + reset[1] < history_limit_timeout

\* Lines 146-148: x-ratelimit-remaining replaces an exhausted limit.
RemainingApplies(remaining) == history_limit = 0 /\ remaining # <<>>

FeedHeaders(limit, reset, remaining) ==
    /\ history_limit_count' = PolicyCount(limit)
    /\ history_limit_period' = PolicyPeriod(limit)
    /\ history_limit_policy_updated' =
           (history_limit_policy_updated \/ limit.kind = "match")
    /\ history_limit_timeout' =
           IF ResetMoves(reset) THEN now + reset[1] ELSE history_limit_timeout
    /\ history_limit' = IF RemainingApplies(remaining) THEN remaining[1] ELSE history_limit
    /\ history_limit_updated' =
           (history_limit_updated \/ ResetMoves(reset) \/ RemainingApplies(remaining))

\* The OK branch without line 154: the flag is cleared, the priority stays.
ResponseOk_NoRestore(i) ==
    /\ first_chance_failed' = [first_chance_failed EXCEPT ![i] = FALSE]
    /\ pc' = [pc EXCEPT ![i] = "extract"]
    /\ UNCHANGED <<priority, history_request_queue, can_proceed, watcher, demotions>>

\* The OK branch with line 154 and without line 153.
ResponseOk_KeepFlag(i) ==
    /\ priority' = [priority EXCEPT ![i] =
                        IF first_chance_failed[i] THEN @ - SECOND_CHANCE_PRIORITY ELSE @]
    /\ pc' = [pc EXCEPT ![i] = "extract"]
    /\ UNCHANGED <<first_chance_failed, history_request_queue, can_proceed, watcher,
                   demotions>>

\* Lines 151-162 up to the first await of the OK branch.
ResponseOk(i) ==
    /\ first_chance_failed' = [first_chance_failed EXCEPT ![i] = FALSE]
    /\ priority' = [priority EXCEPT ![i] =
                        IF first_chance_failed[i] THEN @ - SECOND_CHANCE_PRIORITY ELSE @]
    /\ pc' = [pc EXCEPT ![i] = "extract"]
    /\ UNCHANGED <<history_request_queue, can_proceed, watcher, demotions>>

\* Lines 168-178 without the test of line 171: every failure is retried.
ResponseError_AlwaysRetry(i) ==
    /\ first_chance_failed' = [first_chance_failed EXCEPT ![i] = TRUE]
    /\ priority' = [priority EXCEPT ![i] = @ + SECOND_CHANCE_PRIORITY]
    /\ demotions' = [demotions EXCEPT ![i] = @ + 1]
    /\ NextTicket(i, year[i], priority[i] + SECOND_CHANCE_PRIORITY, watcher)

\* Lines 168-178 without line 178: the retry keeps its priority.
ResponseError_NoDemotion(i) ==
    IF first_chance_failed[i]
    THEN /\ Leave(i, watcher)
         /\ UNCHANGED <<first_chance_failed, priority, demotions>>
    ELSE /\ first_chance_failed' = [first_chance_failed EXCEPT ![i] = TRUE]
         /\ NextTicket(i, year[i], priority[i], watcher)
         /\ UNCHANGED <<priority, demotions>>

\* A 404 falling through to the second-chance code (lines 164-166 missing).
ResponseNotFound_AsError(i) ==
    IF first_chance_failed[i]
    THEN /\ Leave(i, watcher)
         /\ UNCHANGED <<first_chance_failed, priority, demotions>>
    ELSE /\ first_chance_failed' = [first_chance_failed EXCEPT ![i] = TRUE]
         /\ priority' = [priority EXCEPT ![i] = @ + SECOND_CHANCE_PRIORITY]
         /\ demotions' = [demotions EXCEPT ![i] = @ + 1]
         /\ NextTicket(i, year[i], priority[i] + SECOND_CHANCE_PRIORITY, watcher)

\* Lines 165-166.
ResponseNotFound(i) ==
    /\ Leave(i, watcher)
    /\ UNCHANGED <<first_chance_failed, priority, demotions>>

\* Lines 168-178, then the loop head again.
ResponseError(i) ==
    IF first_chance_failed[i]
    THEN /\ Leave(i, watcher)
         /\ UNCHANGED <<first_chance_failed, priority, demotions>>
    ELSE /\ first_chance_failed' = [first_chance_failed EXCEPT ![i] = TRUE]
         /\ priority' = [priority EXCEPT ![i] = @ + SECOND_CHANCE_PRIORITY]
         /\ demotions' = [demotions EXCEPT ![i] = @ + 1]
         /\ NextTicket(i, year[i], priority[i] + SECOND_CHANCE_PRIORITY, watcher)

\* A response arrives for the GET of fetcher i.
Response(i, status, limit, reset, remaining) ==
    /\ pc[i] = "http"
    /\ ~WatcherRunning
    /\ ~(~history_limit_policy_updated /\ limit.kind = "malformed")
    /\ FeedHeaders(limit, reset, remaining)
    /\ last' = [last EXCEPT ![i] = status]
    /\ CASE status = "ok" -> ResponseOk(i)
         [] status = "notfound" -> ResponseNotFound(i)
         [] status = "error" -> ResponseError(i)
    /\ UNCHANGED <<history_request_priority, wake_at, now, first_year, year, host,
                   p0, tries, issued, yielded, jumped>>
    /\ first_limit' = IF first_limit.kind = "absent" /\ limit.kind = "match"
                      THEN limit
                      ELSE first_limit
    /\ quiet_until' = IF first_limit.kind = "absent" /\ limit.kind = "match" /\ reset # <<>>
                      THEN now + reset[1]
                      ELSE quiet_until
    /\ relimited' = (relimited \/ (/\ first_limit.kind = "match"
                                   /\ limit.kind = "match"
                                   /\ limit # first_limit))
    /\ reset_seen' = reset
    /\ UNCHANGED <<starved, taskVars, requests, admissions, storeVars>>

\* Lines 131-133: the header is there and the pattern does not match it, so
\* match is None and match.group raises AttributeError out of the generator.
ResponseMalformed(i) ==
    /\ pc[i] = "http"
    /\ ~WatcherRunning
    /\ ~history_limit_policy_updated
    /\ pc' = [pc EXCEPT ![i] = "raised"]
    /\ last' = [last EXCEPT ![i] = "malformed"]
    /\ UNCHANGED <<history_request_priority, limiterVars, history_request_queue,
                   watcher, wake_at, now, first_year, year, priority,
                   first_chance_failed, can_proceed, host, p0, tries, issued,
                   demotions, yielded, jumped>>
    /\ UNCHANGED <<learnVars, taskVars, auditVars, storeVars>>

\* Line 128: the GET itself raises (the client's timeout, a connection error);
\* nothing in get_history_csvs or get_history_task catches it.
RequestRaises(i) ==
    /\ pc[i] = "http"
    /\ ~WatcherRunning
    /\ pc' = [pc EXCEPT ![i] = "raised"]
    /\ last' = [last EXCEPT ![i] = "timeout"]
    /\ UNCHANGED <<history_request_priority, limiterVars, history_request_queue,
                   watcher, wake_at, now, first_year, year, priority,
                   first_chance_failed, can_proceed, host, p0, tries, issued,
                   demotions, yielded, jumped>>
    /\ UNCHANGED <<learnVars, taskVars, auditVars, storeVars>>

\* Lines 156-162 counting the years down: after a CSV the year before, and
\* the end after the first year there is.
FetcherYield_Descend(i) ==
    /\ pc[i] = "extract"
    /\ ~WatcherRunning
    /\ yielded' = [yielded EXCEPT ![i] = @ \cup {year[i]}]
    /\ IF year[i] = 0
       THEN /\ Leave(i, watcher)
            /\ UNCHANGED year
            /\ UNCHANGED tries
       ELSE /\ year' = [year EXCEPT ![i] = @ - 1]
            /\ tries' = [tries EXCEPT ![i] = 0]
            /\ NextTicket(i, year[i] - 1, priority[i], watcher)
    /\ UNCHANGED <<history_request_priority, limiterVars, wake_at, now, first_year,
                   priority, first_chance_failed, host, p0, issued, demotions, last, jumped>>
    /\ saving' = [saving EXCEPT ![i] = @ + 1]
    /\ UNCHANGED <<save_failed, learnVars, auditVars, storeVars>>

\* Lines 156-162 without line 161: after a CSV the same year is asked for
\* again.
FetcherYield_SameYear(i) ==
    /\ pc[i] = "extract"
    /\ ~WatcherRunning
    /\ yielded' = [yielded EXCEPT ![i] = @ \cup {year[i]}]
    /\ IF year[i] = CurYear
       THEN Leave(i, watcher)
       ELSE NextTicket(i, year[i], priority[i], watcher)
    /\ UNCHANGED <<history_request_priority, limiterVars, wake_at, now, first_year,
                   year, tries, priority, first_chance_failed, host, p0, issued,
                   demotions, last, jumped>>
    /\ saving' = [saving EXCEPT ![i] = @ + 1]
    /\ UNCHANGED <<save_failed, learnVars, auditVars, storeVars>>

\* Lines 156-162: body read and unzipped, the CSV is yielded, then the next
\* year or the end.
FetcherYield(i) ==
    /\ pc[i] = "extract"
    /\ ~WatcherRunning
    /\ yielded' = [yielded EXCEPT ![i] = @ \cup {year[i]}]
    /\ IF year[i] = CurYear
       THEN /\ Leave(i, watcher)
            /\ UNCHANGED year
            /\ UNCHANGED tries
       ELSE /\ year' = [year EXCEPT ![i] = @ + 1]
            /\ tries' = [tries EXCEPT ![i] = 0]
            /\ NextTicket(i, year[i] + 1, priority[i], watcher)
    /\ UNCHANGED <<history_request_priority, limiterVars, wake_at, now, first_year,
                   priority, first_chance_failed, host, p0, issued, demotions, last, jumped>>
    /\ saving' = [saving EXCEPT ![i] = @ + 1]
    /\ UNCHANGED <<save_failed, learnVars, auditVars, storeVars>>

\* Line 158: _extract raises (zipfile.BadZipFile) in the executor.
ExtractRaises(i) ==
    /\ pc[i] = "extract"
    /\ ~WatcherRunning
    /\ pc' = [pc EXCEPT ![i] = "raised"]
    /\ last' = [last EXCEPT ![i] = "badzip"]
    /\ UNCHANGED <<history_request_priority, limiterVars, history_request_queue,
                   watcher, wake_at, now, first_year, year, priority,
                   first_chance_failed, can_proceed, host, p0, tries, issued,
                   demotions, yielded, jumped>>
    /\ UNCHANGED <<learnVars, taskVars, auditVars, storeVars>>

\* --------------------------------------------------- watcher, lines 195-214
\* Line 199: the task's first step.  The task was created by the first
\* fetcher, so it is queued behind the first step of every fetcher task.
WatcherStart ==
    /\ watcher = "created"
    /\ \A i \in Fetchers : pc[i] # "new"
    /\ history_limit_timeout' = now + history_limit_period
    /\ watcher' = "loop"
    /\ UNCHANGED <<history_request_priority, history_limit, history_limit_count,
                   history_limit_period, history_limit_policy_updated,
                   history_limit_updated, history_request_queue, wake_at, now,
                   fetcherVars, host, histVars>>
    /\ UNCHANGED <<learnVars, taskVars, auditVars, storeVars>>

\* Lines 202-205 with `>= 0` for the test of line 202: a ticket is admitted
\* when no token is left.
WatcherAdmit_OneMore ==
    /\ \/ watcher = "loop" /\ history_limit >= 0
       \/ watcher = "get"
    /\ history_request_queue # <<>>
    /\ LET k == PopIndex(history_request_queue) IN
       /\ can_proceed' = [can_proceed EXCEPT ![history_request_queue[k].owner] = TRUE]
       /\ history_request_queue' = Remove(history_request_queue, k)
       /\ jumped' = (jumped \/ k # 1)
       /\ admissions' = [admissions EXCEPT ![history_request_queue[k].owner] = @ + 1]
    /\ history_limit' = history_limit - 1
    /\ watcher' = "loop"
    /\ UNCHANGED <<history_request_priority, history_limit_count, history_limit_period,
                   history_limit_policy_updated, history_limit_timeout,
                   history_limit_updated, wake_at, now, pc, first_year, year,
                   priority, first_chance_failed, host, p0, tries, issued, demotions,
                   last, yielded>>
    /\ UNCHANGED <<learnVars, taskVars, requests, reset_seen, storeVars>>

\* Lines 202-205: one turn of the inner loop; get() does not suspend while the
\* queue holds a ticket.
WatcherAdmit ==
    /\ \/ watcher = "loop" /\ history_limit > 0
       \/ watcher = "get"
    /\ history_request_queue # <<>>
    /\ LET k == PopIndex(history_request_queue) IN
       /\ can_proceed' = [can_proceed EXCEPT ![history_request_queue[k].owner] = TRUE]
       /\ history_request_queue' = Remove(history_request_queue, k)
       /\ jumped' = (jumped \/ k # 1)
       /\ admissions' = [admissions EXCEPT ![history_request_queue[k].owner] = @ + 1]
    /\ history_limit' = history_limit - 1
    /\ watcher' = "loop"
    /\ UNCHANGED <<history_request_priority, history_limit_count, history_limit_period,
                   history_limit_policy_updated, history_limit_timeout,
                   history_limit_updated, wake_at, now, pc, first_year, year,
                   priority, first_chance_failed, host, p0, tries, issued, demotions,
                   last, yielded>>
    /\ UNCHANGED <<learnVars, taskVars, requests, reset_seen, storeVars>>

\* Line 203 on an empty queue: get() suspends.
WatcherBlock ==
    /\ watcher = "loop"
    /\ history_limit > 0
    /\ history_request_queue = <<>>
    /\ watcher' = "get"
    /\ UNCHANGED <<history_request_priority, limiterVars, history_request_queue,
                   wake_at, now, fetcherVars, host, histVars>>
    /\ starved' = 0
    /\ UNCHANGED <<first_limit, quiet_until, relimited, taskVars, auditVars, storeVars>>

\* Lines 212-214.
RECURSIVE RefillTimeout(_)
RefillTimeout(t) == IF t <= now THEN RefillTimeout(t + history_limit_period) ELSE t

\* Lines 212-214 with the initial limit in the place of _history_limit_count.
Refill_One ==
    /\ history_limit_updated' = FALSE
    /\ history_limit' =
           IF history_limit_timeout <= now THEN InitialLimit ELSE history_limit
    /\ history_limit_timeout' = RefillTimeout(history_limit_timeout)
    /\ watcher' = "loop"
    /\ starved' = IF history_limit = 0 /\ history_limit_timeout <= now
                  THEN Len(history_request_queue)
                  ELSE 0

\* With a period of 0 line 214 adds nothing and the test of line 212 stays
\* true: the watcher never leaves the loop, nor the event loop the watcher.
Refill ==
    /\ history_limit_updated' = FALSE
    /\ history_limit' =
           IF history_limit_timeout <= now THEN history_limit_count ELSE history_limit
    /\ IF history_limit_timeout <= now /\ history_limit_period = 0
       THEN /\ history_limit_timeout' = history_limit_timeout
            /\ watcher' = "spin"
       ELSE /\ history_limit_timeout' = RefillTimeout(history_limit_timeout)
            /\ watcher' = "loop"
    /\ starved' = IF history_limit = 0 /\ history_limit_timeout <= now
                  THEN Len(history_request_queue)
                  ELSE 0

\* Lines 207-214 with the limit used up: wait for the refill time, or refill
\* at once when it has passed.
WatcherSleep ==
    /\ watcher = "loop"
    /\ ~(history_limit > 0)
    /\ IF history_limit_timeout - now > 0
       THEN /\ watcher' = "wait"
            /\ wake_at' = history_limit_timeout
            /\ starved' = 0
            /\ UNCHANGED limiterVars
       ELSE /\ Refill
            /\ UNCHANGED <<wake_at, history_limit_count, history_limit_period,
                           history_limit_policy_updated>>
    /\ UNCHANGED <<history_request_priority, history_request_queue, now, fetcherVars,
                   host, histVars>>
    /\ UNCHANGED <<first_limit, quiet_until, relimited, taskVars, auditVars, storeVars>>

\* Lines 210-214: wait_for returns, by the event or by its timeout.
WatcherWake ==
    /\ watcher = "wait"
    /\ history_limit_updated \/ now >= wake_at
    /\ Refill
    /\ wake_at' = 0
    /\ UNCHANGED <<history_request_priority, history_limit_count, history_limit_period,
                   history_limit_policy_updated, history_request_queue, now,
                   fetcherVars, host, histVars>>
    /\ UNCHANGED <<first_limit, quiet_until, relimited, taskVars, auditVars, storeVars>>

\* ---------------------------------------------------- host.py, lines 92-95
\* get_history_task i has returned: the generator is over and gather() at
\* line 90 found every save task finished.
TaskReturned(i) == pc[i] = "done" /\ saving[i] = 0 /\ ~save_failed[i]

\* get_history_task i has raised: out of the generator, or out of gather() at
\* line 90, which re-raises the exception of a save task.
TaskRaised(i) == pc[i] = "raised" \/ (pc[i] = "done" /\ save_failed[i])

\* host.py lines 88-89: a save task of fetcher i runs to its end.
SaveDone(i) ==
    /\ saving[i] > 0
    /\ ~WatcherRunning
    /\ host # "exited"
    /\ saving' = [saving EXCEPT ![i] = @ - 1]
    /\ UNCHANGED <<history_request_priority, limiterVars, history_request_queue,
                   watcher, wake_at, now, fetcherVars, host, histVars, save_failed,
                   learnVars, auditVars, storeVars>>

\* A save task of fetcher i raises (the COPY rejects the CSV, the connection
\* is lost); save_candle_history catches nothing.
SaveRaises(i) ==
    /\ saving[i] > 0
    /\ ~WatcherRunning
    /\ host # "exited"
    /\ saving' = [saving EXCEPT ![i] = @ - 1]
    /\ save_failed' = [save_failed EXCEPT ![i] = TRUE]
    /\ UNCHANGED <<history_request_priority, limiterVars, history_request_queue,
                   watcher, wake_at, now, fetcherVars, host, histVars,
                   learnVars, auditVars, storeVars>>

\* gather() re-raises the first exception of a fetcher task.
HostRaise ==
    /\ host = "gather"
    /\ watcher # "spin"
    /\ \E i \in Fetchers : TaskRaised(i)
    /\ host' = "raised"
    /\ UNCHANGED <<history_request_priority, limiterVars, history_request_queue,
                   watcher, wake_at, now, fetcherVars, histVars>>
    /\ UNCHANGED <<learnVars, taskVars, auditVars, storeVars>>

HostReturn ==
    /\ host = "gather"
    /\ watcher # "spin"
    /\ \A i \in Fetchers : pc[i] = "absent" \/ TaskReturned(i)
    /\ host' = "returned"
    /\ UNCHANGED <<history_request_priority, limiterVars, history_request_queue,
                   watcher, wake_at, now, fetcherVars, histVars>>
    /\ UNCHANGED <<learnVars, taskVars, auditVars, storeVars>>

\* trading_bot.py line 26: main() is over and asyncio.run cancels what is left.
Shutdown ==
    /\ host \in {"raised", "returned"}
    /\ ~WatcherRunning
    /\ host' = "exited"
    /\ pc' = [i \in Fetchers |->
                 IF pc[i] \in {"done", "raised", "absent"} THEN pc[i] ELSE "cancelled"]
    /\ watcher' = IF watcher = "none" THEN "none" ELSE "cancelled"
    /\ UNCHANGED <<history_request_priority, limiterVars, history_request_queue,
                   wake_at, now, first_year, year, priority, first_chance_failed,
                   can_proceed, histVars>>
    /\ saving' = [i \in Fetchers |-> 0]
    /\ UNCHANGED <<save_failed, learnVars, auditVars, storeVars>>

\* ------------------------------------------------------------------ clock
FetcherRunnable(i) == pc[i] = "new" \/ (pc[i] = "wait" /\ can_proceed[i])

WatcherRunnable ==
    \/ watcher \in {"created", "loop", "spin"}
    \/ watcher = "get" /\ history_request_queue # <<>>
    \/ watcher = "wait" /\ (history_limit_updated \/ now >= wake_at)

\* The loop sleeps only when no task is ready to run.
Tick ==
    /\ host = "gather"
    /\ now < MaxTicks * TickSeconds
    /\ ~WatcherRunnable
    /\ \A i \in Fetchers : ~FetcherRunnable(i)
    /\ now' = now + TickSeconds
    /\ issued' = Recent(issued, now + TickSeconds)
    /\ UNCHANGED <<history_request_priority, limiterVars, history_request_queue,
                   watcher, wake_at, fetcherVars, host, p0, tries, demotions, last,
                   yielded, jumped>>
    /\ UNCHANGED <<learnVars, taskVars, auditVars, storeVars>>

\* The steps of the program with a server whose responses carry a limit header
\* of L, a reset header of R and a remaining header of M.
Step(L, R, M) ==
    \/ \E i \in Fetchers : FetcherStart(i)
    \/ \E i \in Fetchers : FetcherRequest(i)
    \/ \E i \in Fetchers, status \in Statuses, limit \in L, reset \in R, remaining \in M :
            Response(i, status, limit, reset, remaining)
    \/ \E i \in Fetchers : ResponseMalformed(i)
    \/ \E i \in Fetchers : RequestRaises(i)
    \/ \E i \in Fetchers : FetcherYield(i)
    \/ \E i \in Fetchers : ExtractRaises(i)
    \/ \E i \in Fetchers : SaveDone(i)
    \/ WatcherStart
    \/ WatcherAdmit
    \/ WatcherBlock
    \/ WatcherSleep
    \/ WatcherWake
    \/ HostRaise
    \/ HostReturn
    \/ Shutdown
    \/ Tick

\* The server states its policy, "2,1;w=30", in a response or not (or sends a
\* limit header of another format), and says or not that one request remains.
\* No save task raises.
Next == Step({Absent, Malformed, Limit30}, {<<>>}, IntHeaders({1}))

Spec == Init /\ [][Next]_vars

\* The server states its policy, "2,1;w=30", in every response and sends no
\* other rate-limit header.
NextSteady == Step({Limit30}, {<<>>}, {<<>>})

SpecSteady == Init /\ [][NextSteady]_vars

\* The server states one of two policies, "2,1;w=30" and "30,30;w=60", in a
\* response or none, or sends a limit header of another format.
NextLearn == Step({Absent, Malformed, Limit30, Limit60}, {<<>>}, {<<>>})

SpecLearn == Init /\ [][NextLearn]_vars

\* Every response carries x-ratelimit-limit: 30,30;w=60, x-ratelimit-reset: 42
\* and x-ratelimit-remaining: 0.
NextScenario == Step({Limit60}, {<<42>>}, {<<0>>})

SpecScenario == Init /\ [][NextScenario]_vars

\* The server sends x-ratelimit-reset: 15 or x-ratelimit-reset: 90 in a
\* response or not, and no other rate-limit header.
NextReset == Step({Absent}, IntHeaders({15, 90}), {<<>>})

SpecReset == Init /\ [][NextReset]_vars

\* The server states no policy or one of "2,1;w=30", "2,1;w=0" and "0,1;w=30",
\* and sends no other rate-limit header.
NextPolicy == Step({Absent, Limit30, LimitW0, LimitNone}, {<<>>}, {<<>>})

SpecPolicy == Init /\ [][NextPolicy]_vars

\* The clock advances by TickSeconds while the watcher is in wait_for.  The
\* program reads the clock only to compare it with the refill time and with
\* the deadline of wait_for, so the step is written as those times coming
\* nearer to now: a run may last for any time and the states stay finitely many.
TickLive ==
    /\ host = "gather"
    /\ watcher = "wait"
    /\ ~WatcherRunnable
    /\ \A i \in Fetchers : ~FetcherRunnable(i)
    /\ history_limit_timeout' = history_limit_timeout - TickSeconds
    /\ wake_at' = wake_at - TickSeconds
    /\ issued' = Recent([k \in 1..Len(issued) |-> issued[k] - TickSeconds], now)
    /\ UNCHANGED <<history_request_priority, history_limit, history_limit_count,
                   history_limit_period, history_limit_policy_updated,
                   history_limit_updated, history_request_queue, watcher, now,
                   fetcherVars, host, p0, tries, demotions, last, yielded, jumped>>
    /\ UNCHANGED <<learnVars, taskVars, auditVars, storeVars>>

\* A run of any length in which no task raises: the server states no policy
\* or one of "2,1;w=30", "2,1;w=0" and "0,1;w=30".
NextLive ==
    \/ \E i \in Fetchers : FetcherStart(i)
    \/ \E i \in Fetchers : FetcherRequest(i)
    \/ \E i \in Fetchers, status \in Statuses, limit \in {Absent, Limit30, LimitW0, LimitNone} :
            Response(i, status, limit, <<>>, <<>>)
    \/ \E i \in Fetchers : FetcherYield(i)
    \/ \E i \in Fetchers : SaveDone(i)
    \/ WatcherStart
    \/ WatcherAdmit
    \/ WatcherBlock
    \/ WatcherSleep
    \/ WatcherWake
    \/ HostReturn
    \/ Shutdown
    \/ TickLive

\* The event loop runs every task that is ready, and time passes; when the
\* server answers is up to the server.
FairLive ==
    /\ \A i \in Fetchers : WF_vars(FetcherStart(i))
    /\ \A i \in Fetchers : WF_vars(FetcherRequest(i))
    /\ \A i \in Fetchers : WF_vars(FetcherYield(i))
    /\ \A i \in Fetchers : WF_vars(SaveDone(i))
    /\ WF_vars(WatcherStart)
    /\ WF_vars(WatcherAdmit)
    /\ WF_vars(WatcherBlock)
    /\ WF_vars(WatcherSleep)
    /\ WF_vars(WatcherWake)
    /\ WF_vars(HostReturn)
    /\ WF_vars(Shutdown)
    /\ WF_vars(TickLive)

SpecLive == Init /\ [][NextLive]_vars /\ FairLive

\* The server sends no rate-limit header, and a save task may raise.
NextTasks ==
    \/ Step({Absent}, {<<>>}, {<<>>})
    \/ \E i \in Fetchers : SaveRaises(i)

SpecTasks == Init /\ [][NextTasks]_vars

\* ------------------------------------- save_candle_history, db.py 211-220
\* The downloader at rest.
Dormant == InitN(1) /\ first_year = [i \in Fetchers |-> 0]

\* Table candle holds some rows and no save is in progress.
InitSave ==
    /\ Dormant
    /\ candle \in Tables
    /\ SaveIdle
    /\ InstrumentIdle
    /\ EndingsIdle
    /\ CsvIdle
    /\ AssetIdle

\* The CSVs saved or being saved.
KnownCsvs == saved \cup {session[s].csv : s \in {t \in Sessions : session[t].pc # "idle"}}

\* Lines 212-216: a connection is taken and the temporary table created.
SaveBegin(s, csv) ==
    /\ session[s].pc = "idle"
    /\ Cardinality(KnownCsvs \cup {csv}) <= MaxCsvs
    /\ session' = [session EXCEPT ![s] = [pc |-> "temp", csv |-> csv, todo |-> <<>>, own |-> {}]]
    /\ UNCHANGED <<loaderVars, candle, saved, lost, instrVars, endVars, csvVars, assetVars>>

\* Lines 217-218: COPY fills the temporary table, which has no key (LIKE
\* copies no index); then the INSERT ... SELECT of line 219 starts.
SaveCopy(s) ==
    /\ session[s].pc = "temp"
    /\ session' = [session EXCEPT ![s].pc = "insert", ![s].todo = session[s].csv]
    /\ UNCHANGED <<loaderVars, candle, saved, lost, instrVars, endVars, csvVars, assetVars>>

\* The uncommitted rows of the other sessions.
OthersRows(s) == UNION {session[t].own : t \in Sessions \ {s}}

\* Session s waits for the transaction that inserted the key of r to end.
Blocked(s, r) == ~KeyTaken(r, candle \cup session[s].own) /\ KeyTaken(r, OthersRows(s))

\* Line 219, one row of the temporary table, in no order SELECT promises:
\* ON CONFLICT DO NOTHING skips a row whose key is in the table or was
\* inserted by this statement before.
SaveInsertRow(s) ==
    /\ session[s].pc = "insert"
    /\ \E k \in 1..Len(session[s].todo) :
          LET r == session[s].todo[k] IN
          /\ ~Blocked(s, r)
          /\ session' = [session EXCEPT
                ![s].todo = Remove(session[s].todo, k),
                ![s].own = IF KeyTaken(r, candle \cup session[s].own)
                           THEN session[s].own
                           ELSE session[s].own \cup {r}]
    /\ UNCHANGED <<loaderVars, candle, saved, lost, instrVars, endVars, csvVars, assetVars>>

\* The commit replaces the rows of the CSV's keys by the CSV's.
SaveCommit_LastWriterWins(s) ==
    /\ session[s].pc = "insert"
    /\ session[s].todo = <<>>
    /\ LET rows == {session[s].csv[k] : k \in 1..Len(session[s].csv)} IN
       candle' = {x \in candle : ~KeyTaken(x, rows)} \cup
                 {r \in rows : \A x \in rows : SameKey(x, r) => x = r}
    /\ saved' = saved \cup {session[s].csv}
    /\ session' = [session EXCEPT ![s] = IdleSession]
    /\ UNCHANGED <<loaderVars, lost, instrVars, endVars, csvVars, assetVars>>

\* Line 220: the statement is over and the transaction commits.
SaveCommit(s) ==
    /\ session[s].pc = "insert"
    /\ session[s].todo = <<>>
    /\ candle' = candle \cup session[s].own
    /\ saved' = saved \cup {session[s].csv}
    /\ session' = [session EXCEPT ![s] = IdleSession]
    /\ UNCHANGED <<loaderVars, lost, instrVars, endVars, csvVars, assetVars>>

\* The call raises before its commit and what it inserted stays (a
\* connection in autocommit mode).
SaveFails_KeepsRows(s) ==
    /\ session[s].pc \in {"temp", "insert"}
    /\ session' = [session EXCEPT ![s] = IdleSession]
    /\ candle' = candle \cup session[s].own
    /\ lost' = session[s].own
    /\ UNCHANGED <<loaderVars, saved, instrVars, endVars, csvVars, assetVars>>

\* The call raises before its commit (the connection is lost, the COPY
\* rejects the data): leaving the connection block rolls back.
SaveFails(s) ==
    /\ session[s].pc \in {"temp", "insert"}
    /\ session' = [session EXCEPT ![s] = IdleSession]
    /\ lost' = session[s].own
    /\ UNCHANGED <<loaderVars, candle, saved, instrVars, endVars, csvVars, assetVars>>

\* Two sessions wait for each other's key: the server ends the deadlock by
\* failing one of the statements.
SaveDeadlock(s) ==
    /\ session[s].pc = "insert"
    /\ \E t \in Sessions \ {s} :
          /\ session[t].pc = "insert"
          /\ \E k \in 1..Len(session[s].todo) :
                /\ Blocked(s, session[s].todo[k])
                /\ KeyTaken(session[s].todo[k], session[t].own)
          /\ \E k \in 1..Len(session[t].todo) :
                /\ Blocked(t, session[t].todo[k])
                /\ KeyTaken(session[t].todo[k], session[s].own)
    /\ session' = [session EXCEPT ![s] = IdleSession]
    /\ lost' = session[s].own
    /\ UNCHANGED <<loaderVars, candle, saved, instrVars, endVars, csvVars, assetVars>>

NextSave ==
    \/ \E s \in Sessions, csv \in Csvs : SaveBegin(s, csv)
    \/ \E s \in Sessions : SaveCopy(s)
    \/ \E s \in Sessions : SaveInsertRow(s)
    \/ \E s \in Sessions : SaveCommit(s)
    \/ \E s \in Sessions : SaveFails(s)
    \/ \E s \in Sessions : SaveDeadlock(s)

SpecSave == InitSave /\ [][NextSave]_vars

\* ----------------------------------------- add_instruments, db.py 168-183
\* The instruments of a call, as line 175 lays them out for the statement.
InstrumentRows == [uid : Uids, figi : 0..NumFigis, first_1min_candle_date : 0..MaxTimestamp]
Batches == UNION {[1..n -> InstrumentRows] : n \in 0..MaxBatch}

\* The statement with on_conflict_do_nothing: a row of a known uid is dropped.
Upsert_DoNothing(t, r, id) ==
    IF \E x \in t : x.uid = r.uid
    THEN t
    ELSE t \cup {[id |-> id, uid |-> r.uid, figi |-> r.figi,
                  first_1min_candle_date |-> r.first_1min_candle_date]}

\* Lines 176-179 for one row: INSERT with the identity value id, or on a
\* conflict on uid an UPDATE of every column that is not the primary key.
Upsert(t, r, id) ==
    IF \E x \in t : x.uid = r.uid
    THEN {IF x.uid = r.uid
          THEN [id |-> x.id, uid |-> r.uid, figi |-> r.figi,
                first_1min_candle_date |-> r.first_1min_candle_date]
          ELSE x : x \in t}
    ELSE t \cup {[id |-> id, uid |-> r.uid, figi |-> r.figi,
                  first_1min_candle_date |-> r.first_1min_candle_date]}

\* The rows of the statement in turn; each draws a value from the identity
\* sequence, used or not.
RECURSIVE UpsertAll(_, _, _)
UpsertAll(t, batch, id) ==
    IF batch = <<>> THEN t
    ELSE UpsertAll(Upsert(t, Head(batch), id), Tail(batch), id + 1)

\* Two rows of the statement have one uid: the server refuses the statement
\* (ON CONFLICT DO UPDATE cannot affect a row a second time).
AffectsTwice(batch) ==
    \E k, l \in 1..Len(batch) : k # l /\ batch[k].uid = batch[l].uid

\* Lines 168-183.  The values drawn from the sequence are gone also when the
\* statement fails and the session rolls back.
AddInstruments(batch) ==
    /\ identity + Len(batch) <= MaxIdentity + 1
    /\ identity' = identity + Len(batch)
    /\ IF AffectsTwice(batch)
       THEN UNCHANGED <<instrument, upserted>>
       ELSE /\ instrument' = UpsertAll(instrument, batch, identity)
            /\ upserted' =
                  [u \in Uids |->
                     IF \E k \in 1..Len(batch) : batch[k].uid = u
                     THEN LET r == batch[CHOOSE k \in 1..Len(batch) : batch[k].uid = u]
                          IN  <<[figi |-> r.figi,
                                 first_1min_candle_date |-> r.first_1min_candle_date]>>
                     ELSE upserted[u]]
    /\ UNCHANGED <<loaderVars, saveVars, endVars, csvVars, assetVars>>

NextInstruments == \E batch \in Batches : AddInstruments(batch)

\* Table instrument is empty.
InitInstruments == Dormant /\ StoreIdle

SpecInstruments == InitInstruments /\ [][NextInstruments]_vars

\* ------------------------------------- get_history_endings, db.py 186-209
\* Lines 191-194: max(timestamp) of the candles of instrument id.
Latest(id) ==
    CHOOSE t \in 1..MaxTimestamp :
        /\ \E c \in candle : c.instrument = id /\ c.timestamp = t
        /\ \A c \in candle : c.instrument = id => c.timestamp <= t

\* Lines 195-196: coalesce(latest, first_1min_candle_date) over the outer join.
HistoryEnd(i) ==
    IF \E c \in candle : c.instrument = i.id
    THEN Latest(i.id)
    ELSE i.first_1min_candle_date

\* The query with an inner join: instruments without candles have no row.
QueryRows_InnerJoin ==
    {[instrument |-> i, history_end |-> HistoryEnd(i)] :
        i \in {j \in instrument : /\ j.figi # NULL /\ j.first_1min_candle_date # NULL
                                   /\ \E c \in candle : c.instrument = j.id}}

\* Lines 195-198: the rows of the query.
QueryRows ==
    {[instrument |-> i, history_end |-> HistoryEnd(i)] :
        i \in {j \in instrument : j.figi # NULL /\ j.first_1min_candle_date # NULL}}

\* Line 199: the orders ORDER BY history_end allows; rows of one history_end
\* come in any order.
Orderings(rows) ==
    {q \in [1..Cardinality(rows) -> rows] :
        /\ \A k, l \in 1..Cardinality(rows) : k # l => q[k] # q[l]
        /\ \A k, l \in 1..Cardinality(rows) : k < l => q[k].history_end <= q[l].history_end}

\* Lines 207-209: the rows of the response that pass the allow-list.
Allowed(q, f) == SelectSeq(q, LAMBDA x : ~f.given \/ x.instrument.figi \in f.list)

GetHistoryEndings(f) ==
    /\ figis' = f
    /\ endings' \in {Allowed(q, f) : q \in Orderings(QueryRows)}
    /\ UNCHANGED <<loaderVars, saveVars, instrVars, csvVars, assetVars>>

\* The tables hold some rows.
InitEndings ==
    /\ Dormant
    /\ candle \in Tables
    /\ SaveIdle
    /\ instrument \in InstrumentTables
    /\ identity = 1
    /\ upserted = [u \in Uids |-> <<>>]
    /\ EndingsIdle
    /\ CsvIdle
    /\ AssetIdle

NextEndings == \E f \in FigiArgs : GetHistoryEndings(f)

SpecEndings == InitEndings /\ [][NextEndings]_vars

\* --------------------------------------- get_history_task, host.py 82-90
Digits == {"1", "2"}
Delimiters == {";", "\n"}
\* The bytes a download may consist of.
Bytes == Digits \cup {"-"} \cup Delimiters
ByteStrings(n) == UNION {[1..m -> Bytes] : m \in 0..n}
\* str(instrument.uid), cut down to two groups of one hex digit: "1-2".
UidStrings == {<<"1", "-", b>> : b \in Digits}
\* str(instrument.id): decimal digits.
IdStrings == UNION {[1..m -> Digits] : m \in 1..MaxIdDigits}

\* t holds old at position k.
OccursAt(t, old, k) ==
    k >= 1 /\ k + Len(old) - 1 <= Len(t) /\ SubSeq(t, k, k + Len(old) - 1) = old

\* bytes.replace with count=1: the first occurrence only.
RECURSIVE Replace_First(_, _, _)
Replace_First(t, old, new) ==
    IF Len(t) < Len(old) THEN t
    ELSE IF OccursAt(t, old, 1)
         THEN new \o SubSeq(t, Len(old) + 1, Len(t))
         ELSE <<Head(t)>> \o Replace_First(Tail(t), old, new)

\* bytes.replace(old, new) for a non-empty old: the occurrences are found
\* from the left, each search starting behind the occurrence before.
RECURSIVE Replace(_, _, _)
Replace(t, old, new) ==
    IF Len(t) < Len(old) THEN t
    ELSE IF OccursAt(t, old, 1)
         THEN new \o Replace(SubSeq(t, Len(old) + 1, Len(t)), old, new)
         ELSE <<Head(t)>> \o Replace(Tail(t), old, new)

\* Lines 87-89: the CSV the generator yielded is rewritten and handed to
\* save_candle_history.
HandCsv ==
    /\ csv_out' = Replace(Replace(downloaded, uid_binary, id_binary), <<";", "\n">>, <<"\n">>)
    /\ UNCHANGED <<loaderVars, saveVars, instrVars, endVars,
                   downloaded, uid_binary, id_binary, assetVars>>

\* Some bytes were downloaded for some instrument.
InitCsv ==
    /\ Dormant
    /\ candle = {}
    /\ SaveIdle
    /\ InstrumentIdle
    /\ EndingsIdle
    /\ downloaded \in ByteStrings(MaxCsvBytes)
    /\ uid_binary \in UidStrings
    /\ id_binary \in IdStrings
    /\ csv_out = <<>>
    /\ AssetIdle

NextCsv == HandCsv

SpecCsv == InitCsv /\ [][NextCsv]_vars

\* ---------------------------------------- _get_asset_types, db.py 156-165
\* No lock at all: the `async with` of line 158 missing.
LockFree_Always == TRUE

\* asyncio.Lock.acquire returns at once when the lock is not held and nobody
\* waits for it; a lock just released stays with the first of those who wait.
LockFree == asset_types_lock.holder = 0 /\ asset_types_lock.waiters = <<>>

\* Lines 159-163, entered by caller c with the lock taken and with the
\* waiters w: the mapping is returned if there is one (and the lock released),
\* else the query is sent and the caller waits for it, holding the lock.
UnderLock(c, w, hasWaited) ==
    IF asset_types # <<>>
    THEN /\ caller' = [caller EXCEPT ![c] =
                          [pc |-> "got", seen |-> {}, asked |-> FALSE,
                           waited |-> hasWaited, result |-> asset_types]]
         /\ received' = received \cup {asset_types[1]}
         /\ asset_types_lock' = [holder |-> 0, waiters |-> w]
    ELSE /\ caller' = [caller EXCEPT ![c] =
                          [pc |-> "query", seen |-> {}, asked |-> TRUE,
                           waited |-> hasWaited, result |-> <<>>]]
         /\ received' = received
         /\ asset_types_lock' = [holder |-> c, waiters |-> w]

\* Line 174 and line 158: add_instruments calls _get_asset_types, which takes
\* the lock or queues up for it.
GetAssetTypes(c) ==
    /\ caller[c].pc = "idle"
    /\ IF LockFree
       THEN UnderLock(c, asset_types_lock.waiters, FALSE)
       ELSE /\ caller' = [caller EXCEPT ![c].pc = "lock", ![c].waited = TRUE]
            /\ asset_types_lock' =
                   [asset_types_lock EXCEPT !.waiters = Append(@, c)]
            /\ UNCHANGED received
    /\ UNCHANGED <<loaderVars, saveVars, instrVars, endVars, csvVars,
                   asset_type, asset_types, creating, loads>>

\* Line 158: the lock was released and the first of those who wait takes it.
LockTaken(c) ==
    /\ caller[c].pc = "lock"
    /\ asset_types_lock.holder = 0
    /\ asset_types_lock.waiters # <<>>
    /\ Head(asset_types_lock.waiters) = c
    /\ UnderLock(c, Tail(asset_types_lock.waiters), TRUE)
    /\ UNCHANGED <<loaderVars, saveVars, instrVars, endVars, csvVars,
                   asset_type, asset_types, creating, loads>>

\* Line 163: the server runs the SELECT and sees the rows committed by then.
QueryRuns(c) ==
    /\ caller[c].pc = "query"
    /\ caller' = [caller EXCEPT ![c].pc = "fetched", ![c].seen = asset_type]
    /\ UNCHANGED <<loaderVars, saveVars, instrVars, endVars, csvVars,
                   asset_type, asset_types, asset_types_lock, creating, loads, received>>

\* Lines 163-165: the response is there; the mapping is stored and returned
\* and the lock released.
QueryDone(c) ==
    /\ caller[c].pc = "fetched"
    /\ asset_types' = <<caller[c].seen>>
    /\ loads' = loads + 1
    /\ received' = received \cup {caller[c].seen}
    /\ caller' = [caller EXCEPT ![c].pc = "got", ![c].result = <<caller[c].seen>>]
    /\ asset_types_lock' = [asset_types_lock EXCEPT !.holder = 0]
    /\ UNCHANGED <<loaderVars, saveVars, instrVars, endVars, csvVars,
                   asset_type, creating>>

\* Line 163 raises (the connection is lost): the lock is released on the way
\* out, no mapping is stored and add_instruments is over.
QueryFails(c) ==
    /\ caller[c].pc \in {"query", "fetched"}
    /\ caller' = [caller EXCEPT ![c] = IdleCaller]
    /\ asset_types_lock' = [asset_types_lock EXCEPT !.holder = 0]
    /\ UNCHANGED <<loaderVars, saveVars, instrVars, endVars, csvVars,
                   asset_type, asset_types, creating, loads, received>>

\* Lines 175-183: add_instruments goes on with the mapping and returns.
AddInstrumentsReturns(c) ==
    /\ caller[c].pc = "got"
    /\ caller' = [caller EXCEPT ![c] = IdleCaller]
    /\ UNCHANGED <<loaderVars, saveVars, instrVars, endVars, csvVars,
                   asset_type, asset_types, asset_types_lock, creating, loads, received>>

\* Lines 148-151: create inserts the names that are not in the table and
\* commits.
CreateCommit(names) ==
    /\ creating = "idle"
    /\ asset_type' = asset_type \cup names
    /\ creating' = "committed"
    /\ UNCHANGED <<loaderVars, saveVars, instrVars, endVars, csvVars,
                   asset_types, asset_types_lock, caller, loads, received>>

\* Line 153, which does not take the lock.
CreateReset ==
    /\ creating = "committed"
    /\ asset_types' = <<>>
    /\ creating' = "idle"
    /\ loads' = 0
    /\ received' = {}
    /\ UNCHANGED <<loaderVars, saveVars, instrVars, endVars, csvVars,
                   asset_type, asset_types_lock, caller>>

\* Table asset_type holds some names.
InitAssetTypes ==
    /\ Dormant
    /\ candle = {}
    /\ SaveIdle
    /\ InstrumentIdle
    /\ EndingsIdle
    /\ CsvIdle
    /\ asset_type \in SUBSET AssetTypeNames
    /\ CacheIdle

NextAssetTypes ==
    \/ \E c \in Callers : GetAssetTypes(c)
    \/ \E c \in Callers : LockTaken(c)
    \/ \E c \in Callers : QueryRuns(c)
    \/ \E c \in Callers : QueryDone(c)
    \/ \E c \in Callers : QueryFails(c)
    \/ \E c \in Callers : AddInstrumentsReturns(c)
    \/ \E names \in SUBSET AssetTypeNames : CreateCommit(names)
    \/ CreateReset

SpecAssetTypes == InitAssetTypes /\ [][NextAssetTypes]_vars

\* ------------------------------------------------------------ properties
Queue == history_request_queue
TicketsOf(i) == {k \in 1..Len(Queue) : Queue[k].owner = i}
Started(i) == pc[i] \notin {"new", "absent"}
\* The steps in which the watcher admits a ticket: nothing else takes a
\* ticket out of the queue.
Admission == Len(Queue') = Len(Queue) - 1
\* The ticket taken out of the queue by an admission.
AdmittedIndex == CHOOSE k \in 1..Len(Queue) : Queue' = Remove(Queue, k)
\* The response to fetcher i's GET is processed in this step.
Answered(i, status) ==
    pc[i] = "http" /\ pc'[i] \in {"wait", "extract", "done"} /\ last'[i] = status

\* C1: whenever the watcher admits a ticket, no ticket put before it with a
\* priority number at most as large is still queued, and no queued ticket has
\* a smaller priority number: admission follows priority, then enqueue order.
C1_PriorityOrder ==
    [][Admission =>
         /\ \E k \in 1..Len(Queue) : Queue' = Remove(Queue, k)
         /\ \A j \in 1..Len(Queue) :
                /\ Queue[AdmittedIndex].priority <= Queue[j].priority
                /\ j < AdmittedIndex =>
                       Queue[j].priority > Queue[AdmittedIndex].priority]_vars

\* A ticket was admitted ahead of one put before it, which is still queued.
C1_Witness ==
    /\ jumped
    /\ Queue # <<>>
    /\ \E i \in Fetchers : pc[i] = "wait" /\ can_proceed[i]
                             /\ priority[i] < Queue[1].priority

\* C2: once the policy is learned, the GETs issued within any window of the
\* length of the learned period number at most the learned capacity.  issued
\* holds the issue times of the window that ends with the latest GET.
C2_WindowWithinCapacity ==
    history_limit_policy_updated => Len(issued) <= history_limit_count

\* C3: a non-OK, non-404 answer to the first GET for a year puts one ticket for
\* the same year, and such an answer to the second GET ends the fetcher; no
\* year is asked for more than twice and a fetcher that has ended stays so.
C3_RetriedOnce ==
    /\ [](\A i \in Fetchers : tries[i] <= 2)
    /\ [][\A i \in Fetchers :
            /\ (Answered(i, "error") /\ tries[i] = 1) =>
                  /\ pc'[i] = "wait"
                  /\ year'[i] = year[i]
                  /\ tries'[i] = 1
                  /\ \E k \in 1..Len(Queue') :
                        /\ Queue'[k].owner = i
                        /\ \A j \in 1..Len(Queue') : Queue'[j].owner = i => j = k
            /\ (Answered(i, "error") /\ tries[i] = 2) =>
                  pc'[i] = "done" /\ Queue' = Queue
            /\ pc[i] = "done" =>
                  pc'[i] = "done" /\ tries'[i] = tries[i] /\ year'[i] = year[i]]_vars

\* The retry of a year failed too and the fetcher has ended.
C3_Witness ==
    \E i \in Fetchers : pc[i] = "done" /\ last[i] = "error" /\ tries[i] = 2

\* C4 as claimed: a fetcher is demoted at most once in its lifetime.
C4_DemotedOncePerFetcher == \A i \in Fetchers : demotions[i] <= 1

\* C4, amended: SECOND_CHANCE_PRIORITY is added at most once per year the
\* fetcher asks for, and never on top of a demotion still in force: the
\* priority is the original one or exceeds it by SECOND_CHANCE_PRIORITY.
C4_DemotedOncePerYear ==
    \A i \in Fetchers :
        Started(i) =>
            /\ demotions[i] <= year[i] - first_year[i] + 1
            /\ priority[i] \in {p0[i], p0[i] + SECOND_CHANCE_PRIORITY}
            /\ (priority[i] # p0[i]) => demotions[i] >= 1

\* A fetcher demoted in each of two years.
C4_Witness ==
    \E i \in Fetchers : demotions[i] = 2 /\ year[i] = first_year[i] + 1

\* C5: every queued ticket carries its fetcher's original priority when
\* first_chance_failed is false and that plus SECOND_CHANCE_PRIORITY when true.
C5_TicketPriority ==
    \A k \in 1..Len(Queue) :
        Queue[k].priority =
            p0[Queue[k].owner] +
            (IF first_chance_failed[Queue[k].owner] THEN SECOND_CHANCE_PRIORITY ELSE 0)

\* After a second chance that succeeded, the fetcher's next ticket carries the
\* original priority.
C5_Witness ==
    \E k \in 1..Len(Queue) :
        LET i == Queue[k].owner IN
        /\ demotions[i] = 1
        /\ ~first_chance_failed[i]
        /\ year[i] > first_year[i]
        /\ Queue[k].priority = p0[i]

\* C6: the watcher admits no second-chance ticket while a first-chance ticket
\* is queued, and among first-chance tickets it admits that of the fetcher
\* spawned first (fetchers are spawned in the order of their numbers).
C6_FirstChancesFirst ==
    [][Admission =>
         \A j \in 1..Len(Queue) :
            LET a == Queue[AdmittedIndex].owner
                b == Queue[j].owner
            IN  j # AdmittedIndex =>
                   /\ ~first_chance_failed[b] => ~first_chance_failed[a]
                   /\ (~first_chance_failed[a] /\ ~first_chance_failed[b]) => a < b]_vars

\* A first chance was admitted ahead of a second chance put before it.
C6_Witness ==
    /\ jumped
    /\ Queue # <<>>
    /\ first_chance_failed[Queue[1].owner]
    /\ \E i \in Fetchers : /\ pc[i] = "wait" /\ can_proceed[i]
                           /\ ~first_chance_failed[i]
                           /\ i > Queue[1].owner

\* C7: a 404 ends the fetcher there and then: it is done, not raised, the
\* host goes on, nothing is yielded for the year, no ticket of the fetcher is
\* queued, and the fetcher asks for nothing afterwards.
C7_NotFoundTerminates ==
    /\ [][\A i \in Fetchers :
            Answered(i, "notfound") =>
                /\ pc'[i] = "done"
                /\ host' = host
                /\ yielded'[i] = yielded[i]
                /\ year[i] \notin yielded'[i]
                /\ Queue' = Queue
                /\ TicketsOf(i) = {}]_vars
    /\ [][\A i \in Fetchers :
            (pc[i] = "done" /\ last[i] = "notfound") =>
                /\ pc'[i] = "done"
                /\ tries'[i] = tries[i]
                /\ yielded'[i] = yielded[i]
                /\ \A k \in 1..Len(Queue') : Queue'[k].owner # i]_vars

\* A 404 answered a second chance.
C7_Witness ==
    \E i \in Fetchers :
        pc[i] = "done" /\ last[i] = "notfound" /\ first_chance_failed[i]

\* C8: a fetcher has at most one ticket queued, and only while it waits for
\* admission; its year lies between first_year and the current year and every
\* earlier year of its range was yielded; the year moves only from the OK
\* branch, by one.
C8_YearsInOrder ==
    /\ [](\A i \in Fetchers :
            /\ Cardinality(TicketsOf(i)) <= 1
            /\ TicketsOf(i) # {} => (pc[i] \in {"wait", "cancelled"} /\ ~can_proceed[i])
            /\ pc[i] \in {"http", "extract"} => TicketsOf(i) = {}
            /\ first_year[i] <= year[i] /\ year[i] <= CurYear
            /\ \A y \in first_year[i]..(year[i] - 1) : y \in yielded[i]
            /\ tries[i] > 0 => Started(i))
    /\ [][\A i \in Fetchers :
            year'[i] # year[i] =>
                /\ year'[i] = year[i] + 1
                /\ pc[i] = "extract"
                /\ last[i] = "ok"
                /\ tries'[i] = 0]_vars

\* The GET for the year after first_year is in flight.
C8_Witness ==
    \E i \in Fetchers : pc[i] = "http" /\ year[i] = first_year[i] + 1

\* C9: the answer that fails a second chance ends that fetcher normally and
\* changes nothing else: the host, the watcher, the queue and the other
\* fetchers are as before; and the host raises only for a fetcher that raised,
\* which no fetcher does on an error status, or for a save task that raised.
C9_SecondFailureIsLocal ==
    /\ [](host = "raised" =>
            \E i \in Fetchers : (pc[i] = "raised" /\ last[i] # "error") \/ save_failed[i])
    /\ [][\A i \in Fetchers :
            (Answered(i, "error") /\ first_chance_failed[i]) =>
                /\ pc'[i] = "done"
                /\ host' = host
                /\ watcher' = watcher
                /\ watcher \in {"get", "wait"}
                /\ Queue' = Queue
                /\ \A j \in Fetchers \ {i} :
                      /\ pc'[j] = pc[j]
                      /\ can_proceed'[j] = can_proceed[j]
                      /\ year'[j] = year[j]]_vars

\* download_history returned although one fetcher ended on a failed second
\* chance, the other having got its last year.
C9_Witness ==
    /\ host = "returned"
    /\ \E i, j \in Fetchers :
          /\ pc[i] = "done" /\ last[i] = "error" /\ tries[i] = 2
          /\ pc[j] = "done" /\ last[j] = "ok" /\ year[j] = CurYear
          /\ yielded[j] # {}

\* C10: a GET that times out is followed by what follows a non-OK response:
\* the fetcher waits with a second-chance ticket, or has ended if that was
\* its second chance; it has not raised.
C10_TimeoutIsSecondChance ==
    \A i \in Fetchers :
        last[i] = "timeout" =>
            \/ pc[i] = "wait" /\ first_chance_failed[i]
            \/ pc[i] = "done"

\* C11: capacity and period are the defaults until a response carries a limit
\* header that matches; they are then min(count1, count2) and the w= seconds
\* of the first such header, and no later response changes them.
C11_LearnedOnce ==
    /\ [](IF first_limit.kind = "match"
          THEN /\ history_limit_policy_updated
               /\ history_limit_count = Min(first_limit.count1, first_limit.count2)
               /\ history_limit_period = first_limit.period
          ELSE /\ ~history_limit_policy_updated
               /\ history_limit_count = DefaultLimitCount
               /\ history_limit_period = DefaultPeriodSeconds)
    /\ [][history_limit_policy_updated =>
            /\ history_limit_policy_updated'
            /\ history_limit_count' = history_limit_count
            /\ history_limit_period' = history_limit_period]_vars

\* The policy was learned from "2,1;w=30" and a later response has said
\* "30,30;w=60".
C11_Witness ==
    /\ relimited
    /\ first_limit = Limit30
    /\ history_limit_count = 1
    /\ history_limit_period = 30

\* C12: after the first response, which says "30,30;w=60", reset 42 and
\* remaining 0, capacity is 30 and period 60, and the watcher admits no ticket
\* before 42 s have passed since that response.
C12_QuietAfterFirstResponse ==
    /\ [](first_limit = Limit60 =>
            history_limit_count = 30 /\ history_limit_period = 60)
    /\ [][Admission => now >= quiet_until]_vars

\* The watcher's turn ends: it suspends in wait_for or in get().
TurnEnds == watcher = "loop" /\ watcher' \in {"wait", "get"}

\* C13 as claimed: the tickets that were queued when the watcher, out of
\* tokens and past the refill time, refilled are all admitted before it
\* suspends again.
C13_AllStarvedAdmitted ==
    [][(TurnEnds /\ starved > 0) => Len(Queue) = 0]_vars

\* C13, amended: of the N tickets queued at such a refill the watcher admits
\* min(N, capacity) before it suspends, in priority order and while the clock
\* stands; the others stay queued.
C13_CapacityOfStarvedAdmitted ==
    /\ [][(TurnEnds /\ starved > 0) =>
             /\ starved - Len(Queue) = Min(starved, history_limit_count)
             /\ Queue' = Queue]_vars
    /\ [][(Admission /\ starved > 0) =>
             \A j \in 1..Len(Queue) :
                j # AdmittedIndex => Queue[AdmittedIndex].priority < Queue[j].priority]_vars
    /\ [][watcher = "loop" => now' = now]_vars

\* Two tickets were queued at the refill, the capacity is 1: one was admitted,
\* the tokens are used up and the other ticket is still queued.
C13_Witness ==
    /\ watcher = "loop"
    /\ starved = 2
    /\ history_limit_count = 1
    /\ history_limit = 0
    /\ Len(Queue) = 1

\* Fetcher i is between its first step and its end.
Active(i) == pc[i] \in {"wait", "http", "extract"}

\* C14: there is no watcher task before a fetcher has run; the watcher runs
\* while a fetcher is active; and when no fetcher is active any more and the
\* queue is empty, the watcher has been cancelled.
C14_WatcherLifecycle ==
    /\ (\A i \in Fetchers : ~Started(i)) => watcher = "none"
    /\ (\E i \in Fetchers : Active(i)) => watcher \in {"created", "loop", "get", "wait"}
    /\ ((\E i \in Fetchers : Started(i)) /\ (\A i \in Fetchers : ~Active(i)) /\ Queue = <<>>)
           => watcher \in {"none", "cancelled"}

\* C15: when download_history has returned or raised, every fetcher task is
\* over and no save task is unfinished.
C15_ReturnsAfterAllTasks ==
    host \in {"returned", "raised"} =>
        \A i \in Fetchers : pc[i] \in {"absent", "done", "raised"} /\ saving[i] = 0

\* The call of session s ends in this step, by its commit or by an error.
SaveEnds(s) == session[s].pc = "insert" /\ session'[s].pc = "idle"

\* C16: a save of a CSV that was saved and committed before leaves table
\* candle as it finds it.
C16_SaveIdempotent ==
    [][\A s \in Sessions :
          (SaveEnds(s) /\ session[s].csv \in saved) => candle' = candle]_vars

\* The INSERT of a second save of a CSV has gone through all its lines and
\* has inserted nothing.
C16_Witness ==
    \E s \in Sessions :
        /\ session[s].pc = "insert"
        /\ session[s].csv \in saved
        /\ Len(session[s].csv) = MaxCsvRows
        /\ session[s].todo = <<>>
        /\ session[s].own = {}

\* C17: table candle never holds two rows of one (instrument, timestamp), and
\* a committed row stays in the table as it is.
C17_FirstWriterWins ==
    /\ [](candle \in Tables)
    /\ [][candle \subseteq candle']_vars

\* A CSV whose two lines have one key and different prices was committed
\* while another save held an uncommitted row.
C17_Witness ==
    /\ \E csv \in saved :
          /\ Len(csv) = 2
          /\ SameKey(csv[1], csv[2])
          /\ csv[1] # csv[2]
          /\ csv[2] \in candle
    /\ \E s \in Sessions : session[s].own # {}

\* get_history_endings is called in this step.
EndingsCalled == <<figis, endings>>' # <<figis, endings>>

\* C18: what get_history_endings yields holds each instrument with a FIGI and
\* a first_1min_candle_date, of the allow-list if one is given, once and no
\* other; each comes with the latest timestamp of its candles, or with its
\* first_1min_candle_date if it has none; the history ends ascend.
C18_HistoryEndings ==
    [][EndingsCalled =>
         LET e == endings'
             yieldedRows == {e[k].instrument : k \in 1..Len(e)}
             stamps(i) == {c.timestamp : c \in {d \in candle : d.instrument = i.id}}
         IN  /\ yieldedRows =
                   {i \in instrument :
                       /\ i.figi # NULL
                       /\ i.first_1min_candle_date # NULL
                       /\ figis'.given => i.figi \in figis'.list}
             /\ Len(e) = Cardinality(yieldedRows)
             /\ \A k \in 1..Len(e) :
                   IF stamps(e[k].instrument) = {}
                   THEN e[k].history_end = e[k].instrument.first_1min_candle_date
                   ELSE /\ e[k].history_end \in stamps(e[k].instrument)
                        /\ \A t \in stamps(e[k].instrument) : t <= e[k].history_end
             /\ \A k \in 1..(Len(e) - 1) : e[k].history_end <= e[k + 1].history_end]_vars

\* Under an allow-list an instrument with candles and one without were
\* yielded, the first with the latest timestamp of its candles.
C18_Witness ==
    /\ Len(endings) = 2
    /\ endings[1].history_end < endings[2].history_end
    /\ \E k, l \in 1..2 :
          /\ \E c \in candle : c.instrument = endings[k].instrument.id
          /\ endings[k].history_end # endings[k].instrument.first_1min_candle_date
          /\ \A c \in candle : c.instrument # endings[l].instrument.id
    /\ figis.given

\* t holds old somewhere.
Occurs(t, old) == \E k \in 1..Len(t) : OccursAt(t, old, k)

\* Every occurrence of the uid in the download is a whole field: it starts
\* the bytes or follows a delimiter, and it ends the bytes or a delimiter
\* follows it.
UidIsField ==
    \A k \in 1..Len(downloaded) :
        OccursAt(downloaded, uid_binary, k) =>
            /\ k = 1 \/ downloaded[k - 1] \in Delimiters
            /\ k + Len(uid_binary) > Len(downloaded)
                  \/ downloaded[k + Len(uid_binary)] \in Delimiters

\* C19 as claimed: whatever was downloaded, the bytes handed to
\* save_candle_history hold the uid nowhere.
C19_NoUidInCsv == ~Occurs(csv_out, uid_binary)

\* C19, amended: if the uid occurs in the download as whole fields only, the
\* bytes handed to save_candle_history hold the uid nowhere.
C19_NoUidInFields == UidIsField => ~Occurs(csv_out, uid_binary)

\* A download of two lines that start with the uid was rewritten: each line
\* now starts with the id.
C19_Witness ==
    /\ downloaded = uid_binary \o <<"\n">> \o uid_binary
    /\ csv_out = id_binary \o <<"\n">> \o id_binary
    /\ Len(id_binary) = MaxIdDigits

\* C20: table instrument holds one row per uid that was upserted and none
\* else, no two rows share an id, the row of a uid has the values of the
\* latest upsert of the uid, and a row keeps its id for good.
C20_UpsertByUid ==
    /\ [](\A a, b \in instrument : (a.uid = b.uid \/ a.id = b.id) => a = b)
    /\ [](\A u \in Uids :
            IF upserted[u] = <<>>
            THEN \A r \in instrument : r.uid # u
            ELSE \E r \in instrument :
                    /\ r.uid = u
                    /\ r.figi = upserted[u][1].figi
                    /\ r.first_1min_candle_date = upserted[u][1].first_1min_candle_date)
    /\ [][\A r \in instrument :
            \E q \in instrument' : q.uid = r.uid /\ q.id = r.id]_vars

\* The instrument of id 1 was upserted again, which used up the value 2 of
\* the sequence, before the instrument of id 3 was inserted; the first has a
\* FIGI and the second has none.
C20_Witness ==
    /\ {r.id : r \in instrument} = {1, 3}
    /\ identity = 4
    /\ \E r \in instrument : r.id = 1 /\ r.figi = NumFigis
    /\ \E r \in instrument : r.id = 3 /\ r.figi = NULL

\* Fetcher i issues a GET in this step.
Issues(i) == pc[i] = "wait" /\ pc'[i] = "http"
Highest(S) == CHOOSE x \in S : \A y \in S : y <= x
Lowest(S) == CHOOSE x \in S : \A y \in S : x <= y

\* C21 as claimed: a fetcher asks for the current year first and then for the
\* year below the years it has got, in descending order.
C21_YearsDescend ==
    [][\A i \in Fetchers :
          Issues(i) =>
              year[i] = IF yielded[i] = {} THEN CurYear ELSE Lowest(yielded[i]) - 1]_vars

\* C21, amended: a fetcher asks for first_year first and then for the year
\* above the years it has got, in ascending order; it ends on a 404, on a
\* failed second chance or when it has got the current year.
C21_YearsAscend ==
    /\ [][\A i \in Fetchers :
            Issues(i) =>
                year[i] = IF yielded[i] = {} THEN first_year[i]
                                             ELSE Highest(yielded[i]) + 1]_vars
    /\ [](\A i \in Fetchers :
            pc[i] = "done" =>
                \/ last[i] = "notfound" /\ year[i] \notin yielded[i]
                \/ last[i] = "error" /\ tries[i] = 2 /\ year[i] \notin yielded[i]
                \/ last[i] = "ok" /\ year[i] = CurYear /\ yielded[i] = first_year[i]..CurYear)

\* A fetcher that started with the year before the current one got that year
\* and ended on the 404 for the current year.
C21_Witness ==
    \E i \in Fetchers :
        /\ first_year[i] = CurYear - 1
        /\ pc[i] = "done"
        /\ last[i] = "notfound"
        /\ yielded[i] = {CurYear - 1}
        /\ year[i] = CurYear

\* C23: tokens are never negative; an admission takes one token, of at least
\* one, and fires the event of the ticket's owner; a fetcher issues a GET only
\* when its ticket is out of the queue and its event set, and each of its GETs
\* has an admission of its own.
C23_PaidByToken ==
    /\ [](history_limit >= 0)
    /\ [](\A i \in Fetchers :
            /\ requests[i] <= admissions[i]
            /\ admissions[i] <= requests[i] + 1)
    /\ [][Admission =>
            /\ history_limit >= 1
            /\ history_limit' = history_limit - 1
            /\ can_proceed'[Queue[AdmittedIndex].owner]
            /\ admissions'[Queue[AdmittedIndex].owner] =
                   admissions[Queue[AdmittedIndex].owner] + 1]_vars
    /\ [][\A i \in Fetchers :
            Issues(i) =>
                /\ can_proceed[i]
                /\ TicketsOf(i) = {}
                /\ admissions[i] = requests[i] + 1
                /\ requests'[i] = requests[i] + 1]_vars

\* The second GET of a fetcher is in flight, paid for by the token that
\* x-ratelimit-remaining or a refill gave; no token is left.
C23_Witness ==
    \E i \in Fetchers :
        /\ pc[i] = "http"
        /\ requests[i] = 2
        /\ admissions[i] = 2
        /\ history_limit = 0

\* The response to fetcher i's GET is processed in this step.
Processed(i) == pc[i] = "http" /\ pc'[i] \in {"wait", "extract", "done"}

\* C24: the step that processes a response leaves the refill time where it is
\* or moves it earlier; it moves it, to now + reset, and sets the event only
\* when the response has a reset header and now + reset is earlier than the
\* refill time.
C24_ResetOnlyEarlier ==
    [][\A i \in Fetchers :
          Processed(i) =>
              /\ history_limit_timeout' <= history_limit_timeout
              /\ IF reset_seen' # <<>> /\ now + reset_seen'[1] < history_limit_timeout
                 THEN /\ history_limit_timeout' = now + reset_seen'[1]
                      /\ history_limit_updated'
                 ELSE /\ history_limit_timeout' = history_limit_timeout
                      /\ history_limit_updated' = history_limit_updated]_vars

\* A response that said reset 15 brought the refill time from 60 to 15 and
\* the watcher has refilled since, which made it 75; the latest response said
\* reset 90 and the refill time is still 75.
C24_Witness ==
    /\ reset_seen = <<90>>
    /\ now = TickSeconds
    /\ history_limit_timeout = 15 + DefaultPeriodSeconds
    /\ now + 90 > history_limit_timeout

\* C25: the step in which a fetcher reads a limit header that the pattern
\* does not match leaves capacity, period and the learned flag as they are,
\* raises nothing and goes on to the status of the response.
C25_MalformedSkipped ==
    [][\A i \in Fetchers :
          (pc[i] = "http" /\ last'[i] = "malformed") =>
              /\ pc'[i] \in {"wait", "extract", "done"}
              /\ history_limit_count' = history_limit_count
              /\ history_limit_period' = history_limit_period
              /\ history_limit_policy_updated' = history_limit_policy_updated]_vars

\* The GETs fetcher i may still issue: two for its year and for each year
\* after it, less those issued for its year.
Budget(i) == 2 * (CurYear - year[i] + 1) - tries[i]

\* C26: a fetcher issues at most two GETs for a year and at most
\* 2 * (current year - first_year + 1) in all; what it may still issue never
\* grows and shrinks with every GET, and a fetcher that has ended issues none.
C26_RequestsBounded ==
    /\ [](\A i \in Fetchers :
            /\ tries[i] <= 2
            /\ requests[i] <= 2 * (CurYear - first_year[i] + 1)
            /\ requests[i] + Budget(i) <= 2 * (CurYear - first_year[i] + 1)
            /\ Budget(i) >= 0)
    /\ [][\A i \in Fetchers :
            /\ Budget(i)' <= Budget(i)
            /\ Issues(i) => Budget(i)' < Budget(i)
            /\ pc[i] = "done" => requests'[i] = requests[i]]_vars

\* A fetcher that started with year 0 has ended after two GETs for each of
\* its years.
C26_Witness ==
    \E i \in Fetchers :
        /\ first_year[i] = 0
        /\ pc[i] = "done"
        /\ requests[i] = 2 * (CurYear + 1)

\* C28: no two tickets in the queue have one owner, and no two have one
\* priority.
C28_DistinctTickets ==
    \A k, l \in 1..Len(Queue) :
        k # l => /\ Queue[k].owner # Queue[l].owner
                 /\ Queue[k].priority # Queue[l].priority

\* The queue holds the second-chance ticket of the first fetcher and a
\* first-chance ticket of the second.
C28_Witness ==
    /\ Len(Queue) = 2
    /\ \E k, l \in 1..2 :
          /\ Queue[k].owner = 1
          /\ Queue[k].priority = SECOND_CHANCE_PRIORITY
          /\ Queue[l].owner = 2
          /\ Queue[l].priority = 1

\* The watcher, out of tokens or woken from wait_for, comes to line 212 with
\* the refill time reached.
CatchUp ==
    /\ history_limit_timeout <= now
    /\ \/ watcher = "wait" /\ watcher' \in {"loop", "spin"}
       \/ /\ watcher = "loop" /\ history_limit <= 0
          /\ watcher' = "spin" \/ history_limit_timeout' # history_limit_timeout

\* C29: the watcher never stays in the loop of lines 212-214, whatever policy
\* was learned: when it comes to the loop with the refill time reached, it
\* leaves it with the refill time later than now and the tokens equal to the
\* capacity.
C29_RefillTerminates ==
    /\ [](watcher # "spin")
    /\ [][CatchUp =>
            /\ watcher' = "loop"
            /\ history_limit_timeout' > now
            /\ history_limit' = history_limit_count]_vars

\* C22: a fetcher that has a ticket in the queue is admitted in the end:
\* its ticket leaves the queue.
C22_EveryTicketAdmitted ==
    \A i \in Fetchers : (TicketsOf(i) # {}) ~> (TicketsOf(i) = {})

\* The callers whose query is on its way.
Querying == {c \in Callers : caller[c].pc \in {"query", "fetched"}}

\* C27: since create last reset the mapping it was loaded at most once; at
\* most one caller has a query on its way, and it holds the lock; every
\* mapping _get_asset_types has returned since is the one stored.
C27_LoadedOnce ==
    /\ loads <= 1
    /\ Cardinality(Querying) <= 1
    /\ \A c \in Querying : asset_types_lock.holder = c
    /\ received = IF asset_types = <<>> THEN {} ELSE {asset_types[1]}
    /\ asset_types # <<>> => loads = 1

\* Three first callers: one ran the query, the others waited for the lock and
\* got the mapping it stored.
C27_Witness ==
    /\ loads = 1
    /\ \A c \in Callers : caller[c].pc = "got" /\ caller[c].result = asset_types
    /\ Cardinality({c \in Callers : caller[c].asked}) = 1
    /\ Cardinality({c \in Callers : caller[c].waited /\ ~caller[c].asked}) = NumCallers - 1
    /\ asset_types[1] = AssetTypeNames

\* The step in which session s's call raises before its commit.
SaveFailed(s) ==
    /\ session[s].pc \in {"temp", "insert"}
    /\ session'[s].pc = "idle"
    /\ saved' = saved
    /\ lost' = session[s].own

\* C30: a save that fails before its commit leaves the candle table as it
\* was; a save that returns adds all the rows it inserted; no step removes or
\* changes a row of the table, and no row of a call still on its way is in it.
C30_AllOrNothing ==
    /\ [](\A s \in Sessions : session[s].own \cap candle = {})
    /\ [][/\ candle \subseteq candle'
          /\ \A s \in Sessions :
                /\ SaveFailed(s) => candle' = candle
                /\ SaveEnds(s) /\ ~SaveFailed(s) =>
                      candle' = candle \cup session[s].own]_vars

\* A save failed after it had inserted rows and none of them is in the table,
\* which holds the rows of a save committed beside it; a third call is on its
\* way with rows of its own.
C30_Witness ==
    /\ lost # {}
    /\ \A r \in lost : ~KeyTaken(r, candle)
    /\ saved # {}
    /\ candle # {}
    /\ \E s \in Sessions : session[s].pc = "insert" /\ session[s].own # {}
====
